---- MODULE Spec2Model ----
(***************************************************************************)
(* SmartCity Dash (Civora): the hazards database (supabase_setup.sql), the *)
(* HTTP client (hooks/api.js) and the client store (hooks/useStore.js).    *)
(*                                                                         *)
(* Numbers.  A DECIMAL degree value is a record [i, f] meaning             *)
(* i + f / 10^9 degrees with 0 <= f < 10^9, so that both the range limits  *)
(* (90, 180) and digits below the 8th decimal place fit in TLC's integers. *)
(* Distances are whole decimetres, confidence scores are in units of       *)
(* 1/10000, a radius in km is in units of 1/10000 km, time is in           *)
(* milliseconds.                                                           *)
(***************************************************************************)
EXTENDS Integers, Sequences, FiniteSets, TLC

VARIABLES
    now,                        \* the clock: NOW() / Date.now()
    hazards,                    \* heap of table hazards (rows, committed or not)
    committed,                  \* ids of the rows whose transaction committed
    hazards_pkey,               \* PRIMARY KEY index on hazards.id
    idx_hazards_location_gist,  \* GIST index on hazards.location
    idx_hazards_driver_id,      \* index on hazards.driver_id
    sess,                       \* database sessions calling insert_hazard
    acks,                       \* the calls of insert_hazard that returned: arguments and row
    nret,                       \* how many calls of insert_hazard returned
    qres,                       \* what the last get_hazards_within_radius returned
    driverId,                   \* useStore state
    driverSettings,
    nearbyHazards,
    nearbyHazardsCount,
    driverHistory,
    loading,
    error,
    calls,                      \* the store's async actions that are awaiting the API
    retval,                     \* what the store action that just finished returned
    nrep,                       \* how many times reportHazard was called
    pager,                      \* a client reading a driver's history page by page
    dash,                       \* DashcamScreen: its state, refs and async handlers
    settings                    \* SettingsScreen: its form and its save

dbvars == <<now, hazards, committed, hazards_pkey, idx_hazards_location_gist,
            idx_hazards_driver_id, sess, acks, nret, qres>>

tables == <<hazards, committed, hazards_pkey, idx_hazards_location_gist,
            idx_hazards_driver_id, acks, nret>>

state == <<driverId, driverSettings, nearbyHazards, nearbyHazardsCount,
           driverHistory, loading, error>>

storevars == <<state, calls, retval, nrep>>

screens == <<dash, settings>>

client == <<storevars, pager, screens>>

vars == <<dbvars, client>>

-----------------------------------------------------------------------------
(* Bounds *)

NumSessions == 2     \* database sessions that call insert_hazard concurrently
MaxHazards == 2      \* rows of hazards, stored or being inserted
MaxClock == 1        \* the last value of the clock
MaxCalls == 2        \* store actions that await the API at one time
MaxReports == 1      \* calls of reportHazard where the store does other things too
MaxRecordings == 2   \* calls of recordAsync that are pending together
MaxPolls == 2        \* poll ticks of the Dashcam screen that are followed
MaxRaceReports == 2  \* calls of reportHazard where they race (at most MaxHazards)

Sessions == 1..NumSessions

\* the n-th UUID
Uuid(n) == "uuid-" \o ToString(n)
HazardIds == {Uuid(n) : n \in 1..MaxHazards}

-----------------------------------------------------------------------------
(* DECIMAL arithmetic *)

Nano == 10^9

Dec(i, f) == [i |-> i, f |-> f]

DecLeq(a, b) == a.i < b.i \/ (a.i = b.i /\ a.f <= b.f)

Abs(x) == IF x < 0 THEN -x ELSE x

Min(a, b) == IF a <= b THEN a ELSE b

\* numeric rounding to 8 decimal places, half away from zero
Round8(a) ==
    LET up == IF a.i >= 0 THEN 5 ELSE 4
        g  == ((a.f + up) \div 10) * 10
    IN  IF g = Nano THEN Dec(a.i + 1, 0) ELSE Dec(a.i, g)

\* |a| < 10^digits: what DECIMAL(digits + 8, 8) can hold
FitsInt(a, digits) ==
    /\ a.i < 10^digits
    /\ a.i > -(10^digits) \/ (a.i = -(10^digits) /\ a.f > 0)

\* latitude DECIMAL(10, 8): the assignment cast rounds to 8 places, and
\* raises "numeric field overflow" unless two integer digits hold the value
CastLatitude(p) == Round8(p)
LatitudeFits(p) == FitsInt(Round8(p), 2)

\* longitude DECIMAL(11, 8)
CastLongitude(p) == Round8(p)
LongitudeFits(p) == FitsInt(Round8(p), 3)

\* rounding of a score in 1/10000 to 3 decimal places, half away from zero
Round3(c) == IF c >= 0 THEN ((c + 5) \div 10) * 10 ELSE -((((-c) + 5) \div 10) * 10)

\* confidence_score DECIMAL(3, 3): three digits, all after the point: |c| < 1
CastConfidence(c) == Round3(c)
ConfidenceFits(c) == Abs(Round3(c)) < 10000

\* CHECK (confidence_score >= 0 AND confidence_score <= 1)
CheckConfidence(c) == c >= 0 /\ c <= 10000

-----------------------------------------------------------------------------
(* Geography *)

\* ST_MakePoint(x, y): x is the longitude, y the latitude
ST_MakePoint(x, y) == [lon |-> x, lat |-> y]

\* Arc of d degrees of a great circle of the sphere of radius 6,371,000 m,
\* in decimetres (1,111,949 dm to the degree).
ArcDm(d) == d.i * 1111949 + (((d.f \div 100) * 111) \div 1000)

\* ST_Distance of two geography points, in decimetres.  Along one meridian
\* this is the meridian arc; for points on different meridians it is the arc
\* of latitude plus the arc of longitude.
ST_Distance(g1, g2) ==
    Abs(ArcDm(g1.lat) - ArcDm(g2.lat)) + Abs(ArcDm(g1.lon) - ArcDm(g2.lon))

\* a conversion that rounds every fraction up
CastIntCeil(dm) == (dm + 9) \div 10

\* CAST(double precision AS INT): rounds to the nearest integer, halves to even
CastInt(dm) ==
    LET q == dm \div 10
        r == dm % 10
    IN  IF r < 5 THEN q
        ELSE IF r > 5 THEN q + 1
        ELSE IF q % 2 = 0 THEN q ELSE q + 1

\* p_radius_km * 1000, the radius in metres, here in decimetres
RadiusMetres(p_radius_km) == (p_radius_km * 1000 * 10) \div 10000

\* ST_DWithin(g1, g2, metres)
ST_DWithinWholeMetres(g1, g2, distance) == CastInt(ST_Distance(g1, g2)) * 10 <= distance

ST_DWithin(g1, g2, distance) == ST_Distance(g1, g2) <= distance

-----------------------------------------------------------------------------
(* Tables *)

DEMO_DRIVER_ID == "550e8400-e29b-41d4-a716-446655440000"

\* rows of table drivers: the hazards.driver_id foreign key refers to them
drivers == {DEMO_DRIVER_ID, "driver-2"}

HazardTypes ==
    {"pothole", "broken_streetlight", "waterlogging", "traffic_congestion",
     "accident", "road_debris"}

\* gen_random_uuid() under PRIMARY KEY: an id no row of the heap has.  Ids
\* are opaque, so the least unused one stands for any unused one.
Unused(heap) == {n \in 1..MaxHazards : \A h \in heap : h.id # Uuid(n)}

GenFixedUuid(heap) == {Uuid(1)}

gen_random_uuid(heap) ==
    {Uuid(n) : n \in {m \in Unused(heap) : \A other \in Unused(heap) : m <= other}}

\* the row INSERT INTO hazards ... VALUES builds, before the constraints
NewRowSwapped(id, a, started) ==
    [id               |-> id,
     driver_id        |-> a.p_driver_id,
     hazard_type      |-> a.p_hazard_type,
     severity_level   |-> a.p_severity_level,
     confidence_score |-> CastConfidence(a.p_confidence_score),
     location         |-> ST_MakePoint(a.p_longitude, a.p_latitude),
     latitude         |-> CastLatitude(a.p_longitude),
     longitude        |-> CastLongitude(a.p_latitude),
     created_at       |-> started]

NewRow(id, a, started) ==
    [id               |-> id,
     driver_id        |-> a.p_driver_id,
     hazard_type      |-> a.p_hazard_type,
     severity_level   |-> a.p_severity_level,
     confidence_score |-> CastConfidence(a.p_confidence_score),
     location         |-> ST_MakePoint(a.p_longitude, a.p_latitude),
     latitude         |-> CastLatitude(a.p_latitude),
     longitude        |-> CastLongitude(a.p_longitude),
     created_at       |-> started]

\* the column types and the CHECK and REFERENCES constraints of hazards:
\* whether INSERT accepts the values of a call
Constraints(a) ==
    /\ LatitudeFits(a.p_latitude)
    /\ LongitudeFits(a.p_longitude)
    /\ ConfidenceFits(a.p_confidence_score)
    /\ CheckConfidence(CastConfidence(a.p_confidence_score))
    /\ a.p_driver_id \in drivers

\* RETURNING hazards.id, ..., hazards.created_at
Returning(row) ==
    [id               |-> row.id,
     driver_id        |-> row.driver_id,
     hazard_type      |-> row.hazard_type,
     severity_level   |-> row.severity_level,
     confidence_score |-> row.confidence_score,
     latitude         |-> row.latitude,
     longitude        |-> row.longitude,
     created_at       |-> row.created_at]

\* the rows a reader finds through an index: index entries whose heap row
\* belongs to a committed transaction
Visible(entries) == {h \in hazards : h.id \in entries /\ h.id \in committed}

ViaLocation == Visible({e.id : e \in idx_hazards_location_gist})
ViaDriver(d) == Visible({e.id : e \in {x \in idx_hazards_driver_id : x.driver_id = d}})
ViaId(id) == Visible(hazards_pkey \cap {id})

-----------------------------------------------------------------------------
(* Calls of insert_hazard and get_hazards_within_radius *)

\* the coordinates the Dashcam screen reports when no position is known
DefaultLatitude == Dec(28, 613900000)
DefaultLongitude == Dec(77, 209000000)

\* latitudes near the default one, on its meridian: 0.6 m and 1.4 m to the
\* north, and one with a ninth decimal digit
NearLatitudes ==
    {DefaultLatitude, Dec(28, 613905500), Dec(28, 613912700), Dec(28, 613900005)}

Args(d, lat, lon, type, sev, conf) ==
    [p_driver_id        |-> d,
     p_latitude         |-> lat,
     p_longitude        |-> lon,
     p_hazard_type      |-> type,
     p_severity_level   |-> sev,
     p_confidence_score |-> conf]

\* calls with coordinates near each other, by two registered drivers and by
\* one who has no row in drivers
NearCalls ==
    {Args(DEMO_DRIVER_ID, lat, DefaultLongitude, "pothole", "high", 8700) :
        lat \in NearLatitudes}
    \cup {Args(d, DefaultLatitude, DefaultLongitude, "accident", "medium", 9800) :
            d \in {"driver-2", "driver-x"}}

Centres == {ST_MakePoint(DefaultLongitude, lat) :
                lat \in {DefaultLatitude, Dec(28, 613905500)}}

\* radii in 1/10000 km: 0, 0.6 m, 1 m, 1.4 m and the default 2.0 km
Radii == {0, 6, 10, 14, 20000}

NoResult == [asked |-> FALSE]

InitDb ==
    /\ now = 0
    /\ hazards = {}
    /\ committed = {}
    /\ hazards_pkey = {}
    /\ idx_hazards_location_gist = {}
    /\ idx_hazards_driver_id = {}
    /\ sess = [s \in Sessions |-> [pc |-> "idle"]]
    /\ acks = {}
    /\ nret = 0
    /\ qres = NoResult

\* JavaScript null
Null == "null"

\* JavaScript null where an object is expected (driverSettings, location): a
\* record, so that it compares with the objects
NullObject == [null |-> TRUE]
IsNullObject(o) == "null" \in DOMAIN o

Calls == 1..MaxCalls

Free == [stage |-> "free"]

NoReturn == [fn |-> "none"]

\* the initial state of create((set, get) => ({...}))
InitStore ==
    /\ driverId = DEMO_DRIVER_ID
    /\ driverSettings = NullObject
    /\ nearbyHazards = <<>>
    /\ nearbyHazardsCount = 0
    /\ driverHistory = <<>>
    /\ loading = FALSE
    /\ error = Null
    /\ calls = [k \in Calls |-> Free]
    /\ retval = NoReturn
    /\ nrep = 0

InitPager == pager = [state |-> "idle"]

\* DashcamScreen after its first render and its effects: startLocationTracking
\* is waiting for the permission; "closure" is what that call's scope holds
InitDash ==
    dash = [mounted          |-> TRUE,
            location         |-> NullObject,
            isRecording      |-> FALSE,
            showCamera       |-> FALSE,
            showPicker       |-> FALSE,
            reporting        |-> FALSE,
            lastReport       |-> Null,
            cameraPermission |-> FALSE,
            cameraRef        |-> Null,
            locationSub      |-> Null,
            pollRef          |-> Null,
            closure          |-> [location |-> NullObject, driverId |-> DEMO_DRIVER_ID],
            tracking         |-> "permission",
            polls            |-> 0,
            toggling         |-> [requesting |-> FALSE, stopping |-> FALSE],
            recordAsync      |-> 0,
            handleReport     |-> "idle",
            alert            |-> Null,
            flashes          |-> 0]

\* SettingsScreen with its form at its initial values
InitSettings ==
    settings = [anonymousMode |-> FALSE, hasChanges |-> FALSE, saving |-> FALSE,
                alert |-> Null]

Init == InitDb /\ InitStore /\ InitPager /\ InitDash /\ InitSettings

Tick ==
    /\ now < MaxClock
    /\ now' = now + 1
    /\ qres' = NoResult
    /\ UNCHANGED <<hazards, committed, hazards_pkey, idx_hazards_location_gist,
                   idx_hazards_driver_id, sess, acks, nret>>
    /\ UNCHANGED client

InFlight == {s \in Sessions : sess[s].pc = "called"}

\* a client calls the RPC: the transaction starts, NOW() is its start time.
\* Idle sessions are alike, so the call takes the first of them.
RpcInsertHazard(s, a) ==
    /\ sess[s].pc = "idle"
    /\ \A t \in Sessions : t < s => sess[t].pc # "idle"
    /\ Cardinality(hazards) + Cardinality(InFlight) < MaxHazards
    /\ sess' = [sess EXCEPT ![s] = [pc |-> "called", args |-> a, started |-> now]]
    /\ qres' = NoResult
    /\ UNCHANGED <<now, hazards, committed, hazards_pkey, idx_hazards_location_gist,
                   idx_hazards_driver_id, acks, nret>>
    /\ UNCHANGED client

\* INSERT INTO hazards ... VALUES: the heap row, or the error that aborts the
\* transaction and leaves nothing behind
InsertHeap(s) ==
    /\ sess[s].pc = "called"
    /\ IF Constraints(sess[s].args)
       THEN \E id \in gen_random_uuid(hazards) :
              LET row == NewRow(id, sess[s].args, sess[s].started)
              IN  /\ hazards' = hazards \cup {row}
                  /\ sess' = [sess EXCEPT ![s] =
                                [pc |-> "heap", args |-> sess[s].args, row |-> row]]
       ELSE /\ hazards' = hazards
            /\ sess' = [sess EXCEPT ![s] = [pc |-> "idle"]]
    /\ qres' = NoResult
    /\ UNCHANGED <<now, committed, hazards_pkey, idx_hazards_location_gist,
                   idx_hazards_driver_id, acks, nret>>
    /\ UNCHANGED client

\* the index entries of the new row
IndexEntriesNoLocation(row) ==
    /\ hazards_pkey' = hazards_pkey \cup {row.id}
    /\ idx_hazards_location_gist' = idx_hazards_location_gist
    /\ idx_hazards_driver_id' = idx_hazards_driver_id \cup
            {[driver_id |-> row.driver_id, id |-> row.id]}

IndexEntries(row) ==
    /\ hazards_pkey' = hazards_pkey \cup {row.id}
    /\ idx_hazards_location_gist' = idx_hazards_location_gist \cup
            {[location |-> row.location, id |-> row.id]}
    /\ idx_hazards_driver_id' = idx_hazards_driver_id \cup
            {[driver_id |-> row.driver_id, id |-> row.id]}

InsertIndexes(s) ==
    /\ sess[s].pc = "heap"
    /\ IndexEntries(sess[s].row)
    /\ sess' = [sess EXCEPT ![s].pc = "indexed"]
    /\ qres' = NoResult
    /\ UNCHANGED <<now, hazards, committed, acks, nret>>
    /\ UNCHANGED client

\* RETURNING ...; END: the transaction commits and the caller has the row
Commit(s) ==
    /\ sess[s].pc = "indexed"
    /\ committed' = committed \cup {sess[s].row.id}
    /\ acks' = acks \cup {[args |-> sess[s].args, ret |-> Returning(sess[s].row)]}
    /\ nret' = nret + 1
    /\ sess' = [sess EXCEPT ![s] = [pc |-> "idle"]]
    /\ qres' = NoResult
    /\ UNCHANGED <<now, hazards, hazards_pkey, idx_hazards_location_gist,
                   idx_hazards_driver_id>>
    /\ UNCHANGED client

insert_hazard(s) == InsertHeap(s) \/ InsertIndexes(s) \/ Commit(s)

\* the sequences that hold each element of S once, in an order in which the
\* Key of an element is never less than that of one before it
OrderBy(S, Key(_)) ==
    {q \in [1..Cardinality(S) -> S] :
        /\ \A i, j \in 1..Cardinality(S) : i # j => q[i] # q[j]
        /\ \A i, j \in 1..Cardinality(S) : i < j => Key(q[i]) <= Key(q[j])}

\* the select list of get_hazards_within_radius
NearRow(h, centre) ==
    [id               |-> h.id,
     driver_id        |-> h.driver_id,
     hazard_type      |-> h.hazard_type,
     severity_level   |-> h.severity_level,
     confidence_score |-> h.confidence_score,
     latitude         |-> h.latitude,
     longitude        |-> h.longitude,
     created_at       |-> h.created_at,
     distance_meters  |-> CastInt(ST_Distance(h.location, centre))]

DistanceMeters(r) == r.distance_meters

\* SELECT ... FROM hazards h WHERE ST_DWithin(...) ORDER BY distance_meters ASC:
\* every order the sort may produce
get_hazards_within_radius(p_latitude, p_longitude, p_radius_km) ==
    LET centre == ST_MakePoint(p_longitude, p_latitude)
        found  == {h \in ViaLocation :
                      ST_DWithin(h.location, centre, RadiusMetres(p_radius_km))}
    IN  OrderBy({NearRow(h, centre) : h \in found}, DistanceMeters)

QueryNearby(c, r) ==
    /\ \E rows \in get_hazards_within_radius(c.lat, c.lon, r) :
          qres' = [asked |-> TRUE, centre |-> c, radius |-> r, rows |-> rows]
    /\ UNCHANGED <<now, hazards, committed, hazards_pkey, idx_hazards_location_gist,
                   idx_hazards_driver_id, sess, acks, nret>>
    /\ UNCHANGED client

\* concurrent callers of insert_hazard
NextDb ==
    \/ Tick
    \/ \E s \in Sessions, a \in NearCalls : RpcInsertHazard(s, a)
    \/ \E s \in Sessions : InsertHeap(s)
    \/ \E s \in Sessions : InsertIndexes(s)
    \/ \E s \in Sessions : Commit(s)

Spec == Init /\ [][NextDb]_vars

\* one caller of insert_hazard and the readers of get_hazards_within_radius
NextNearby ==
    \/ Tick
    \/ \E a \in NearCalls : RpcInsertHazard(1, a)
    \/ InsertHeap(1)
    \/ InsertIndexes(1)
    \/ Commit(1)
    \/ \E c \in Centres, r \in Radii : QueryNearby(c, r)

SpecNearby == Init /\ [][NextNearby]_vars

\* one caller of insert_hazard, with coordinates at and beyond the ends of
\* the ranges
BoundaryLatitudes ==
    {Dec(-91, 999900000), Dec(-90, 0), DefaultLatitude, Dec(90, 0), Dec(90, 100000),
     Dec(100, 0)}

BoundaryLongitudes == {DefaultLongitude, Dec(180, 0), Dec(180, 100000)}

\* confidence scores at the ends of [0, 1], and one with four decimals
BoundaryConfidences == {0, 8765, 10000}

BoundaryCalls ==
    {Args(DEMO_DRIVER_ID, lat, lon, "pothole", "high", 8700) :
        lat \in BoundaryLatitudes, lon \in BoundaryLongitudes}
    \cup {Args(DEMO_DRIVER_ID, DefaultLatitude, DefaultLongitude, "pothole", "high", conf) :
            conf \in BoundaryConfidences}
    \cup {Args(DEMO_DRIVER_ID, DefaultLatitude, DefaultLongitude, "ufo", "high", 8700)}

NextBoundary ==
    \/ Tick
    \/ \E a \in BoundaryCalls : RpcInsertHazard(1, a)
    \/ InsertHeap(1)
    \/ InsertIndexes(1)
    \/ Commit(1)

SpecBoundary == Init /\ [][NextBoundary]_vars

\* auth.uid(): the driver a session is signed in as
AuthUid(s) == IF s = 1 THEN DEMO_DRIVER_ID ELSE "driver-2"

\* CREATE POLICY "hazards_insert_own" ... WITH CHECK (auth.uid() = driver_id)
hazards_insert_own(s, driver_id) == AuthUid(s) = driver_id

\* a signed-in client's own INSERT INTO hazards, which the policy lets
\* through or refuses; the row then takes the steps of any insert
InsertOwn(s, a) ==
    /\ sess[s].pc = "idle"
    /\ \A t \in Sessions : t < s => sess[t].pc # "idle"
    /\ Cardinality(hazards) + Cardinality(InFlight) < MaxHazards
    /\ hazards_insert_own(s, a.p_driver_id)
    /\ sess' = [sess EXCEPT ![s] = [pc |-> "called", args |-> a, started |-> now,
                                     policy |-> "hazards_insert_own"]]
    /\ qres' = NoResult
    /\ UNCHANGED <<now, hazards, committed, hazards_pkey, idx_hazards_location_gist,
                   idx_hazards_driver_id, acks, nret>>
    /\ UNCHANGED client

\* the two ways a signed-in client has to insert a hazard
NextOwner ==
    \/ Tick
    \/ \E a \in NearCalls : InsertOwn(1, a)
    \/ \E a \in NearCalls : RpcInsertHazard(1, a)
    \/ InsertHeap(1)
    \/ InsertIndexes(1)
    \/ Commit(1)

SpecOwner == Init /\ [][NextOwner]_vars

-----------------------------------------------------------------------------
(* hooks/api.js: the requests the client sends *)

\* what `!x` is for a string and for a number
Falsy(x) == x \in {Null, ""}
IsZero(x) == x.i = 0 /\ x.f = 0

\* a || b for strings
Or(a, b) == IF Falsy(a) THEN b ELSE a

getDriverHistoryNoOffset(d, limit, offset) ==
    [method |-> "GET", path |-> "/api/driver/{driver_id}/history", driver_id |-> d,
     params |-> [limit |-> limit, offset |-> 0]]

getDriverHistory(d, limit, offset) ==
    [method |-> "GET", path |-> "/api/driver/{driver_id}/history", driver_id |-> d,
     params |-> [limit |-> limit, offset |-> offset]]

api_reportHazard(d, latitude, longitude, hazardType) ==
    [method |-> "POST", path |-> "/api/report-hazard",
     body |-> [driver_id |-> d, latitude |-> latitude, longitude |-> longitude,
               hazard_type |-> hazardType]]

getDriverSettings(d) ==
    [method |-> "GET", path |-> "/api/driver/{driver_id}/settings", driver_id |-> d]

api_updateDriverSettings(d, s) ==
    [method |-> "PUT", path |-> "/api/driver/{driver_id}/settings", driver_id |-> d,
     body |-> s]

getNearbyHazards(d, latitude, longitude, radiusKm) ==
    [method |-> "POST", path |-> "/api/nearby-hazards",
     body |-> [driver_id |-> d, latitude |-> latitude, longitude |-> longitude,
               radius_km |-> radiusKm]]

-----------------------------------------------------------------------------
(* The API server, as the README and the specification describe it *)

LatitudeInRange(lat) == DecLeq(Dec(-90, 0), lat) /\ DecLeq(lat, Dec(90, 0))
LongitudeInRange(lon) == DecLeq(Dec(-180, 0), lon) /\ DecLeq(lon, Dec(180, 0))

\* the Report Validator: coordinates in range, type on the whitelist
Validate(body) ==
    /\ LatitudeInRange(body.latitude)
    /\ LongitudeInRange(body.longitude)
    /\ body.hazard_type \in HazardTypes

\* the placeholder classifier: severity medium, a confidence between
\* MOCK_AI_CONFIDENCE_MIN and MOCK_AI_CONFIDENCE_MAX
MockAiConfidences == {7500, 9800}

\* an item of "hazards" in the response of POST /api/nearby-hazards
NearbyItem(r) ==
    [id               |-> r.id,
     hazard_type      |-> r.hazard_type,
     severity_level   |-> r.severity_level,
     confidence_score |-> r.confidence_score,
     latitude         |-> r.latitude,
     longitude        |-> r.longitude,
     distance_km      |-> r.distance_meters,   \* in 1/1000 km
     created_at       |-> r.created_at]

NearbyResponses(body) ==
    {[center    |-> [latitude |-> body.latitude, longitude |-> body.longitude],
      radius_km |-> body.radius_km,
      count     |-> Len(rows),
      hazards   |-> [i \in 1..Len(rows) |-> NearbyItem(rows[i])]] :
        rows \in get_hazards_within_radius(body.latitude, body.longitude, body.radius_km)}

\* an item of "hazards" in the response of GET /api/driver/{driver_id}/history
HistoryItem(h) ==
    [id               |-> h.id,
     hazard_type      |-> h.hazard_type,
     severity_level   |-> h.severity_level,
     confidence_score |-> h.confidence_score,
     latitude         |-> h.latitude,
     longitude        |-> h.longitude,
     created_at       |-> h.created_at]

OlderLater(item) == 0 - item.created_at

\* the reporter's hazards, newest first; hazards of one created_at are in one
\* fixed order
history(reporterId) ==
    CHOOSE q \in OrderBy({HistoryItem(h) : h \in ViaDriver(reporterId)}, OlderLater) : TRUE

HistoryResponse(req) ==
    LET all == history(req.driver_id)
        first == req.params.offset + 1
        last == Min(req.params.offset + req.params.limit, Len(all))
    IN  [driver_id     |-> req.driver_id,
         total_hazards |-> Len(all),
         limit         |-> req.params.limit,
         offset        |-> req.params.offset,
         hazards       |-> IF first > last THEN <<>> ELSE SubSeq(all, first, last)]

\* the calls are alike, so a new one takes the first free place
FreeSlot ==
    {k \in Calls : /\ calls[k].stage = "free"
                   /\ \A j \in Calls : j < k => calls[j].stage # "free"}

InFlightCall(k, fn) == calls[k].stage \in {"sent", "answered"} /\ calls[k].fn = fn

\* the stored reports whose submit is over at the client: it is not waiting
\* for their response
SubmitsReturned ==
    {a \in acks : \A k \in Calls :
        ~(InFlightCall(k, "reportHazard") /\ calls[k].stage = "answered"
            /\ calls[k].status = 201 /\ calls[k].data.id = a.ret.id)}

Send(k, fn, args, req) ==
    calls' = [calls EXCEPT ![k] = [stage |-> "sent", fn |-> fn, args |-> args,
                                   request |-> req, before |-> SubmitsReturned]]

Answer(k, status, data) ==
    calls' = [calls EXCEPT ![k] = [stage |-> "answered", fn |-> calls[k].fn,
                                   args |-> calls[k].args, request |-> calls[k].request,
                                   before |-> calls[k].before,
                                   status |-> status, data |-> data]]

\* POST /api/report-hazard: validate, classify, insert_hazard from its call to
\* its commit, 201 with the row
PostReportHazard(k) ==
    /\ calls[k].stage = "sent"
    /\ calls[k].fn = "reportHazard"
    /\ LET body == calls[k].request.body
       IN  \E conf \in MockAiConfidences :
             LET a == Args(body.driver_id, body.latitude, body.longitude,
                           body.hazard_type, "medium", conf)
             IN  IF Validate(body) /\ Constraints(a)
                 THEN \E id \in gen_random_uuid(hazards) :
                        LET row == NewRow(id, a, now)
                        IN  /\ hazards' = hazards \cup {row}
                            /\ IndexEntries(row)
                            /\ committed' = committed \cup {id}
                            /\ acks' = acks \cup {[args |-> a, ret |-> Returning(row)]}
                            /\ nret' = nret + 1
                            /\ Answer(k, 201, Returning(row))
                 ELSE /\ UNCHANGED tables
                      /\ Answer(k, IF Validate(body) THEN 500 ELSE 422, Null)
    /\ retval' = NoReturn
    /\ UNCHANGED <<now, sess, qres, state, nrep, pager, screens>>

\* POST /api/nearby-hazards
PostNearbyHazards(k) ==
    /\ calls[k].stage = "sent"
    /\ calls[k].fn = "fetchNearbyHazards"
    /\ \E data \in NearbyResponses(calls[k].request.body) : Answer(k, 200, data)
    /\ retval' = NoReturn
    /\ UNCHANGED <<dbvars, state, nrep, pager, screens>>

\* GET /api/driver/{driver_id}/history
GetDriverHistory(k) ==
    /\ calls[k].stage = "sent"
    /\ calls[k].fn = "fetchDriverHistory"
    /\ Answer(k, 200, HistoryResponse(calls[k].request))
    /\ retval' = NoReturn
    /\ UNCHANGED <<dbvars, state, nrep, pager, screens>>

\* { ...a, ...b } of two objects; spreading null adds nothing
Spread(a, b) ==
    IF IsNullObject(a) THEN b
    ELSE [f \in (DOMAIN a) \cup (DOMAIN b) |-> IF f \in DOMAIN b THEN b[f] ELSE a[f]]

\* GET /api/driver/{driver_id}/settings
GetDriverSettings(k) ==
    /\ calls[k].stage = "sent"
    /\ calls[k].fn = "fetchDriverSettings"
    /\ Answer(k, 200, [driver_id       |-> calls[k].request.driver_id,
                       full_name       |-> "John Doe",
                       vehicle_type    |-> "SUV",
                       auto_reporting  |-> TRUE,
                       high_resolution |-> TRUE,
                       sound_alerts    |-> TRUE,
                       email           |-> "john@example.com"])
    /\ retval' = NoReturn
    /\ UNCHANGED <<dbvars, state, nrep, pager, screens>>

\* PUT /api/driver/{driver_id}/settings: the updated settings object
PutDriverSettings(k) ==
    /\ calls[k].stage = "sent"
    /\ calls[k].fn = "updateDriverSettings"
    /\ Answer(k, 200, Spread([driver_id |-> calls[k].request.driver_id],
                             calls[k].request.body))
    /\ retval' = NoReturn
    /\ UNCHANGED <<dbvars, state, nrep, pager, screens>>

-----------------------------------------------------------------------------
(* hooks/useStore.js *)

Return(fn, args, before, value) ==
    retval' = [fn |-> fn, args |-> args, before |-> before, value |-> value]

\* Math.random(), in 1/10000: its least and its greatest values
RandomDraws == {0, 9999}

\* parseFloat(x.toFixed(2)) of a value in 1/10000
ToFixed2(x) == ((x + 50) \div 100) * 100

\* base + (Math.random() - 0.5) * span, span in 10^-5 degrees
Scatter(base, u, span) == Dec(base.i, base.f + (u - 5000) * span)

\* data.hazards || [] and data.total_count || 0
HazardsOrEmpty(data) == IF "hazards" \in DOMAIN data THEN data.hazards ELSE <<>>
TotalCountOrZero(data) == IF "total_count" \in DOMAIN data THEN data.total_count ELSE 0

_mockHistory(u) ==
    LET types == <<"pothole", "broken_streetlight", "waterlogging",
                   "traffic_congestion", "accident", "road_debris">>
        severities == <<"low", "medium", "high", "critical">>
    IN  [n \in 1..12 |->
            [id               |-> "mock-hist-" \o ToString(n - 1),
             driver_id        |-> DEMO_DRIVER_ID,
             hazard_type      |-> types[((n - 1) % 6) + 1],
             severity_level   |-> severities[((n - 1) % 4) + 1],
             confidence_score |-> ToFixed2(7500 + (u * 2300) \div 10000),
             latitude         |-> Scatter(DefaultLatitude, u, 5000),
             longitude        |-> Scatter(DefaultLongitude, u, 5000),
             created_at       |-> now - (n - 1) * 3600000 * 6]]

_mockNearby(u) ==
    LET types == <<"pothole", "broken_streetlight", "waterlogging", "road_debris">>
        severities == <<"medium", "high", "low">>
    IN  [n \in 1..3 |->
            [id               |-> "mock-near-" \o ToString(n - 1),
             driver_id        |-> DEMO_DRIVER_ID,
             hazard_type      |-> types[((n - 1) % 4) + 1],
             severity_level   |-> severities[((n - 1) % 3) + 1],
             confidence_score |-> ToFixed2(8000 + (u * 1800) \div 10000),
             latitude         |-> Scatter(DefaultLatitude, u, 2000),
             longitude        |-> Scatter(DefaultLongitude, u, 2000),
             created_at       |-> now]]

setDriverId(id) ==
    /\ driverId' = id
    /\ retval' = NoReturn
    /\ UNCHANGED <<driverSettings, nearbyHazards, nearbyHazardsCount, driverHistory,
                   loading, error, calls, nrep, dbvars, pager, screens>>

reset ==
    /\ driverId' = Null
    /\ driverSettings' = NullObject
    /\ nearbyHazards' = <<>>
    /\ nearbyHazardsCount' = 0
    /\ driverHistory' = <<>>
    /\ loading' = FALSE
    /\ error' = Null
    /\ retval' = NoReturn
    /\ UNCHANGED <<calls, nrep, dbvars, pager, screens>>

\* fetchDriverHistory up to its await
fetchDriverHistory(id, limit, offset) ==
    LET d == Or(id, driverId)
        args == [driverId |-> d, limit |-> limit, offset |-> offset]
    IN  /\ IF Falsy(d)
           THEN /\ Return("fetchDriverHistory", args, SubmitsReturned,
                          [total_count |-> 0, hazards |-> <<>>])
                /\ UNCHANGED <<loading, error, calls>>
           ELSE /\ \E k \in FreeSlot :
                      Send(k, "fetchDriverHistory", args, getDriverHistory(d, limit, offset))
                /\ loading' = TRUE
                /\ error' = Null
                /\ retval' = NoReturn
        /\ UNCHANGED <<driverId, driverSettings, nearbyHazards, nearbyHazardsCount,
                       driverHistory, nrep, dbvars, pager, screens>>

\* ... its try block after the await
fetchDriverHistoryThen(k) ==
    /\ calls[k].stage = "answered"
    /\ calls[k].fn = "fetchDriverHistory"
    /\ calls[k].status = 200
    /\ driverHistory' = HazardsOrEmpty(calls[k].data)
    /\ loading' = FALSE
    /\ Return("fetchDriverHistory", calls[k].args, calls[k].before, calls[k].data)
    /\ calls' = [calls EXCEPT ![k] = Free]
    /\ UNCHANGED <<driverId, driverSettings, nearbyHazards, nearbyHazardsCount, error,
                   nrep, dbvars, pager, screens>>

\* ... its catch block: the request failed or timed out
fetchDriverHistoryCatch(k) ==
    /\ InFlightCall(k, "fetchDriverHistory")
    /\ \E u \in RandomDraws :
          LET mock == _mockHistory(u)
          IN  /\ driverHistory' = mock
              /\ Return("fetchDriverHistory", calls[k].args, calls[k].before,
                        [total_count |-> Len(mock), hazards |-> mock])
    /\ loading' = FALSE
    /\ calls' = [calls EXCEPT ![k] = Free]
    /\ UNCHANGED <<driverId, driverSettings, nearbyHazards, nearbyHazardsCount, error,
                   nrep, dbvars, pager, screens>>

\* fetchNearbyHazards up to its await
fetchNearbyHazardsCall(id, lat, lon, radius) ==
    LET d == Or(id, driverId)
        args == [driverId |-> d, latitude |-> lat, longitude |-> lon, radius |-> radius]
    IN  /\ IF Falsy(d) \/ IsZero(lat) \/ IsZero(lon)
           THEN /\ Return("fetchNearbyHazards", args, SubmitsReturned,
                          [total_count |-> 0, hazards |-> <<>>])
                /\ calls' = calls
           ELSE /\ \E k \in FreeSlot :
                      Send(k, "fetchNearbyHazards", args, getNearbyHazards(d, lat, lon, radius))
                /\ retval' = NoReturn
        /\ UNCHANGED <<state, nrep, dbvars, pager>>

\* ... called with the screens left as they are
fetchNearbyHazards(id, lat, lon, radius) ==
    fetchNearbyHazardsCall(id, lat, lon, radius) /\ UNCHANGED screens

fetchNearbyHazardsThen(k) ==
    /\ calls[k].stage = "answered"
    /\ calls[k].fn = "fetchNearbyHazards"
    /\ calls[k].status = 200
    /\ nearbyHazards' = HazardsOrEmpty(calls[k].data)
    /\ nearbyHazardsCount' = TotalCountOrZero(calls[k].data)
    /\ Return("fetchNearbyHazards", calls[k].args, calls[k].before, calls[k].data)
    /\ calls' = [calls EXCEPT ![k] = Free]
    /\ UNCHANGED <<driverId, driverSettings, driverHistory, loading, error,
                   nrep, dbvars, pager, screens>>

fetchNearbyHazardsCatch(k) ==
    /\ InFlightCall(k, "fetchNearbyHazards")
    /\ \E u \in RandomDraws :
          LET mock == _mockNearby(u)
          IN  /\ nearbyHazards' = mock
              /\ nearbyHazardsCount' = Len(mock)
              /\ Return("fetchNearbyHazards", calls[k].args, calls[k].before,
                        [total_count |-> Len(mock), hazards |-> mock])
    /\ calls' = [calls EXCEPT ![k] = Free]
    /\ UNCHANGED <<driverId, driverSettings, driverHistory, loading, error,
                   nrep, dbvars, pager, screens>>

\* reportHazard up to its await
reportHazardCall(id, lat, lon, type) ==
    LET d == Or(id, driverId)
        args == [driverId |-> d, latitude |-> lat, longitude |-> lon, type |-> type]
    IN  /\ nrep' = nrep + 1
        /\ IF Falsy(d)
           THEN /\ Return("reportHazard", args, SubmitsReturned, Null)
                /\ calls' = calls
           ELSE /\ \E k \in FreeSlot :
                      Send(k, "reportHazard", args, api_reportHazard(d, lat, lon, type))
                /\ retval' = NoReturn
        /\ UNCHANGED <<state, dbvars, pager>>

\* ... called with the screens left as they are
reportHazard(id, lat, lon, type) ==
    reportHazardCall(id, lat, lon, type) /\ UNCHANGED screens

reportHazardThenStore(k) ==
    /\ calls[k].stage = "answered"
    /\ calls[k].fn = "reportHazard"
    /\ calls[k].status = 201
    /\ driverHistory' = <<calls[k].data>> \o driverHistory
    /\ nearbyHazardsCount' = nearbyHazardsCount + 1
    /\ Return("reportHazard", calls[k].args, calls[k].before, calls[k].data)
    /\ calls' = [calls EXCEPT ![k] = Free]
    /\ UNCHANGED <<driverId, driverSettings, nearbyHazards, loading, error,
                   nrep, dbvars, pager>>

reportHazardThen(k) == reportHazardThenStore(k) /\ UNCHANGED screens

reportHazardCatchStore(k) ==
    /\ InFlightCall(k, "reportHazard")
    /\ \E u1, u2 \in RandomDraws :
          LET mock == [id               |-> "mock-" \o ToString(now),
                       driver_id        |-> calls[k].args.driverId,
                       hazard_type      |-> calls[k].args.type,
                       severity_level   |-> <<"low", "medium", "high">>[((u1 * 3) \div 10000) + 1],
                       confidence_score |-> ToFixed2(7500 + (u2 * 2300) \div 10000),
                       latitude         |-> calls[k].args.latitude,
                       longitude        |-> calls[k].args.longitude,
                       created_at       |-> now]
          IN  /\ driverHistory' = <<mock>> \o driverHistory
              /\ Return("reportHazard", calls[k].args, calls[k].before, mock)
    /\ nearbyHazardsCount' = nearbyHazardsCount + 1
    /\ calls' = [calls EXCEPT ![k] = Free]
    /\ UNCHANGED <<driverId, driverSettings, nearbyHazards, loading, error,
                   nrep, dbvars, pager>>

reportHazardCatch(k) == reportHazardCatchStore(k) /\ UNCHANGED screens

_mockSettings(d) ==
    [driver_id       |-> d,
     full_name       |-> "Demo Driver",
     vehicle_type    |-> "SUV",
     auto_reporting  |-> TRUE,
     high_resolution |-> TRUE,
     sound_alerts    |-> TRUE,
     cloud_backup    |-> FALSE,
     anonymous_mode  |-> FALSE,
     updated_at      |-> now]

\* fetchDriverSettings up to its await
fetchDriverSettings(id) ==
    LET d == Or(id, driverId)
        args == [driverId |-> d]
    IN  /\ IF Falsy(d)
           THEN /\ Return("fetchDriverSettings", args, SubmitsReturned, Null)
                /\ UNCHANGED <<loading, error, calls>>
           ELSE /\ \E k \in FreeSlot :
                      Send(k, "fetchDriverSettings", args, getDriverSettings(d))
                /\ loading' = TRUE
                /\ error' = Null
                /\ retval' = NoReturn
        /\ UNCHANGED <<driverId, driverSettings, nearbyHazards, nearbyHazardsCount,
                       driverHistory, nrep, dbvars, pager, screens>>

fetchDriverSettingsThen(k) ==
    /\ calls[k].stage = "answered"
    /\ calls[k].fn = "fetchDriverSettings"
    /\ calls[k].status = 200
    /\ driverSettings' = calls[k].data
    /\ loading' = FALSE
    /\ Return("fetchDriverSettings", calls[k].args, calls[k].before, calls[k].data)
    /\ calls' = [calls EXCEPT ![k] = Free]
    /\ UNCHANGED <<driverId, nearbyHazards, nearbyHazardsCount, driverHistory, error,
                   nrep, dbvars, pager, screens>>

fetchDriverSettingsCatch(k) ==
    /\ InFlightCall(k, "fetchDriverSettings")
    /\ LET mock == _mockSettings(calls[k].args.driverId)
       IN  /\ driverSettings' = mock
           /\ Return("fetchDriverSettings", calls[k].args, calls[k].before, mock)
    /\ loading' = FALSE
    /\ calls' = [calls EXCEPT ![k] = Free]
    /\ UNCHANGED <<driverId, nearbyHazards, nearbyHazardsCount, driverHistory, error,
                   nrep, dbvars, pager, screens>>

\* updateDriverSettings up to its await
updateDriverSettingsCall(id, s) ==
    LET d == Or(id, driverId)
        args == [driverId |-> d, settings |-> s]
    IN  /\ IF Falsy(d)
           THEN /\ Return("updateDriverSettings", args, SubmitsReturned, Null)
                /\ UNCHANGED <<loading, error, calls>>
           ELSE /\ \E k \in FreeSlot :
                      Send(k, "updateDriverSettings", args, api_updateDriverSettings(d, s))
                /\ loading' = TRUE
                /\ error' = Null
                /\ retval' = NoReturn
        /\ UNCHANGED <<driverId, driverSettings, nearbyHazards, nearbyHazardsCount,
                       driverHistory, nrep, dbvars, pager>>

updateDriverSettings(id, s) == updateDriverSettingsCall(id, s) /\ UNCHANGED screens

updateDriverSettingsThenStore(k) ==
    /\ calls[k].stage = "answered"
    /\ calls[k].fn = "updateDriverSettings"
    /\ calls[k].status = 200
    /\ driverSettings' = calls[k].data
    /\ loading' = FALSE
    /\ Return("updateDriverSettings", calls[k].args, calls[k].before, calls[k].data)
    /\ calls' = [calls EXCEPT ![k] = Free]
    /\ UNCHANGED <<driverId, nearbyHazards, nearbyHazardsCount, driverHistory, error,
                   nrep, dbvars, pager>>

updateDriverSettingsThen(k) == updateDriverSettingsThenStore(k) /\ UNCHANGED screens

updateDriverSettingsCatchStore(k) ==
    /\ InFlightCall(k, "updateDriverSettings")
    /\ LET updated == Spread(Spread(driverSettings, calls[k].args.settings),
                             [updated_at |-> now])
       IN  /\ driverSettings' = updated
           /\ Return("updateDriverSettings", calls[k].args, calls[k].before, updated)
    /\ loading' = FALSE
    /\ calls' = [calls EXCEPT ![k] = Free]
    /\ UNCHANGED <<driverId, nearbyHazards, nearbyHazardsCount, driverHistory, error,
                   nrep, dbvars, pager>>

updateDriverSettingsCatch(k) == updateDriverSettingsCatchStore(k) /\ UNCHANGED screens

\* no store action is awaiting the API
OneAtATime == \A k \in Calls : calls[k].stage = "free"

\* what the screens and the tests pass to the store
DriverIds == {DEMO_DRIVER_ID, "driver-2"}
Equator == Dec(0, 0)
ReportLatitudes == {DefaultLatitude, Equator, Dec(91, 0)}
NearbyRadii == {0, 20000}
Pages == {[limit |-> 100, offset |-> 0], [limit |-> 1, offset |-> 1]}

\* the store's reports and its view of the hazards nearby, one action at a time
NextStore ==
    \/ reset
    \/ /\ OneAtATime
       /\ nrep < MaxReports
       /\ \E id \in {Null, "driver-2"}, lat \in ReportLatitudes :
             reportHazard(id, lat, DefaultLongitude, "pothole")
    \/ \E k \in Calls : PostReportHazard(k)
    \/ \E k \in Calls : reportHazardThen(k)
    \/ \E k \in Calls : reportHazardCatch(k)
    \/ /\ OneAtATime
       /\ \E lat \in {DefaultLatitude, Equator}, r \in NearbyRadii :
             fetchNearbyHazards(Null, lat, DefaultLongitude, r)
    \/ \E k \in Calls : PostNearbyHazards(k)
    \/ \E k \in Calls : fetchNearbyHazardsThen(k)
    \/ \E k \in Calls : fetchNearbyHazardsCatch(k)

SpecStore == Init /\ [][NextStore]_vars

\* the store's reports and its view of a driver's history, one action at a time
NextStoreHistory ==
    \/ Tick
    \/ \E id \in DriverIds : setDriverId(id)
    \/ /\ OneAtATime
       /\ nrep < MaxReports
       /\ \E id \in {Null, "driver-2"} :
             reportHazard(id, DefaultLatitude, DefaultLongitude, "pothole")
    \/ \E k \in Calls : PostReportHazard(k)
    \/ \E k \in Calls : reportHazardThen(k)
    \/ \E k \in Calls : reportHazardCatch(k)
    \/ /\ OneAtATime
       /\ \E id \in {Null, "driver-2"}, pg \in Pages :
             fetchDriverHistory(id, pg.limit, pg.offset)
    \/ \E k \in Calls : GetDriverHistory(k)
    \/ \E k \in Calls : fetchDriverHistoryThen(k)
    \/ \E k \in Calls : fetchDriverHistoryCatch(k)

SpecStoreHistory == Init /\ [][NextStoreHistory]_vars

\* reports of one place that are under way together, and a fetch of the
\* history beside them that the server answers
NextRace ==
    \/ Tick
    \/ /\ nrep < MaxRaceReports
       /\ reportHazard(Null, DefaultLatitude, DefaultLongitude, "pothole")
    \/ \E k \in Calls : PostReportHazard(k)
    \/ \E k \in Calls : reportHazardThen(k)
    \/ \E k \in Calls : reportHazardCatch(k)
    \/ fetchDriverHistory(Null, 100, 0)
    \/ \E k \in Calls : GetDriverHistory(k)
    \/ \E k \in Calls : fetchDriverHistoryThen(k)

SpecRace == Init /\ [][NextRace]_vars

\* fetches of the history that overlap with each other and with reports, every
\* request being answered
NextLatest ==
    \/ /\ nrep < MaxRaceReports
       /\ reportHazard(Null, DefaultLatitude, DefaultLongitude, "pothole")
    \/ \E k \in Calls : PostReportHazard(k)
    \/ \E k \in Calls : reportHazardThen(k)
    \/ fetchDriverHistory(Null, 100, 0)
    \/ \E k \in Calls : GetDriverHistory(k)
    \/ \E k \in Calls : fetchDriverHistoryThen(k)

SpecLatest == Init /\ [][NextLatest]_vars

-----------------------------------------------------------------------------
(* DashcamScreen: location tracking *)

Coords(lat, lon) == [latitude |-> lat, longitude |-> lon]

\* the positions the device reports
Positions == {Coords(DefaultLatitude, DefaultLongitude),
              Coords(Dec(28, 613905500), DefaultLongitude)}

\* setLocation: React drops the update of a component that has unmounted
setLocation(coords) == IF dash.mounted THEN coords ELSE dash.location

\* startLocationTracking resumes after requestForegroundPermissionsAsync
PermissionAnswered(status) ==
    /\ dash.tracking = "permission"
    /\ dash' = [dash EXCEPT !.tracking = IF status = "granted" THEN "position" ELSE "done"]
    /\ UNCHANGED <<dbvars, storevars, pager, settings>>

\* ... after getCurrentPositionAsync: setLocation, fetchNearbyHazards, and on
\* to watchPositionAsync
PositionObtained(coords) ==
    /\ dash.tracking = "position"
    /\ fetchNearbyHazardsCall(dash.closure.driverId, coords.latitude, coords.longitude,
                              20000)
    /\ dash' = [dash EXCEPT !.location = setLocation(coords), !.tracking = "watch"]
    /\ UNCHANGED settings

\* ... after watchPositionAsync: the subscription goes into locationSub and
\* the interval timer into pollRef
WatchStarted ==
    /\ dash.tracking = "watch"
    /\ dash' = [dash EXCEPT !.locationSub = "watching", !.pollRef = "ticking",
                            !.tracking = "done"]
    /\ UNCHANGED <<dbvars, storevars, pager, settings>>

\* the callback of watchPositionAsync
PositionChanged(coords) ==
    /\ dash.locationSub = "watching"
    /\ dash.mounted
    /\ dash.location # coords
    /\ dash' = [dash EXCEPT !.location = coords]
    /\ UNCHANGED <<dbvars, storevars, pager, settings>>

\* the callback of setInterval, every 30000 ms: "location" is the variable of
\* the scope that startLocationTracking was created in
PollTick ==
    /\ dash.pollRef = "ticking"
    /\ dash.polls < MaxPolls
    /\ dash' = [dash EXCEPT !.polls = dash.polls + 1]
    /\ IF IsNullObject(dash.closure.location)
       THEN UNCHANGED <<dbvars, storevars, pager>>
       ELSE fetchNearbyHazardsCall(dash.closure.driverId, dash.closure.location.latitude,
                                   dash.closure.location.longitude, 20000)
    /\ UNCHANGED settings

\* the cleanup of the location effect
Unmount ==
    /\ dash.mounted
    /\ dash' = [dash EXCEPT !.mounted = FALSE,
                            !.locationSub = IF dash.locationSub = "watching"
                                            THEN "removed" ELSE dash.locationSub,
                            !.pollRef = IF dash.pollRef = "ticking"
                                        THEN "cleared" ELSE dash.pollRef]
    /\ UNCHANGED <<dbvars, storevars, pager, settings>>

\* the Dashcam screen from its mount to its unmount, and the nearby queries
\* it makes
NextTracking ==
    \/ \E status \in {"granted", "denied"} : PermissionAnswered(status)
    \/ \E coords \in Positions : PositionObtained(coords)
    \/ WatchStarted
    \/ \E coords \in Positions : PositionChanged(coords)
    \/ PollTick
    \/ Unmount
    \/ \E k \in Calls : PostNearbyHazards(k)
    \/ \E k \in Calls : fetchNearbyHazardsThen(k)
    \/ \E k \in Calls : fetchNearbyHazardsCatch(k)

SpecTracking == Init /\ [][NextTracking]_vars

-----------------------------------------------------------------------------
(* DashcamScreen: the hazard report; SettingsScreen: the form and its save *)

\* a ?? b for a coordinate of location?.
Coalesce(loc, field, default) == IF IsNullObject(loc) THEN default ELSE loc[field]

\* what handleReport does once reportHazard has returned: setLastReport, the
\* "HAZARD REPORTED" flash, and setReporting(false) in its finally
Reported(type) ==
    [dash EXCEPT !.showPicker = FALSE, !.reporting = FALSE, !.lastReport = type,
                 !.flashes = dash.flashes + 1, !.handleReport = "idle"]

\* handleReport up to its await; without a driver id reportHazard returns
\* null at once and handleReport goes on in the same turn
handleReport(hazardType) ==
    /\ ~dash.reporting
    /\ LET lat == Coalesce(dash.location, "latitude", DefaultLatitude)
           lon == Coalesce(dash.location, "longitude", DefaultLongitude)
       IN  reportHazardCall(driverId, lat, lon, hazardType)
    /\ dash' = IF Falsy(driverId)
               THEN Reported(hazardType)
               ELSE [dash EXCEPT !.showPicker = FALSE, !.reporting = TRUE,
                                 !.handleReport = "awaiting"]
    /\ UNCHANGED settings

\* reportHazard's try block and then handleReport after its await
handleReportThen(k) ==
    /\ dash.handleReport = "awaiting"
    /\ reportHazardThenStore(k)
    /\ dash' = Reported(calls[k].args.type)
    /\ UNCHANGED settings

\* reportHazard's catch block and then handleReport after its await
handleReportCatch(k) ==
    /\ dash.handleReport = "awaiting"
    /\ reportHazardCatchStore(k)
    /\ dash' = Reported(calls[k].args.type)
    /\ UNCHANGED settings

\* the Anonymous Mode switch
onToggleAnonymousMode(v) ==
    /\ v # settings.anonymousMode
    /\ settings' = [settings EXCEPT !.anonymousMode = v, !.hasChanges = TRUE]
    /\ UNCHANGED <<dbvars, storevars, pager, dash>>

\* the settings that handleSave sends
Form ==
    [full_name       |-> "",
     vehicle_type    |-> "SUV",
     auto_reporting  |-> TRUE,
     high_resolution |-> TRUE,
     sound_alerts    |-> TRUE,
     cloud_backup    |-> FALSE,
     anonymous_mode  |-> settings.anonymousMode]

\* what handleSave does once updateDriverSettings has returned
Saved == [settings EXCEPT !.hasChanges = FALSE, !.saving = FALSE, !.alert = "Saved"]

\* handleSave up to its await
handleSave ==
    /\ settings.hasChanges
    /\ ~settings.saving
    /\ updateDriverSettingsCall(driverId, Form)
    /\ settings' = IF Falsy(driverId) THEN Saved ELSE [settings EXCEPT !.saving = TRUE]
    /\ UNCHANGED dash

handleSaveThen(k) ==
    /\ settings.saving
    /\ updateDriverSettingsThenStore(k)
    /\ settings' = Saved
    /\ UNCHANGED dash

handleSaveCatch(k) ==
    /\ settings.saving
    /\ updateDriverSettingsCatchStore(k)
    /\ settings' = Saved
    /\ UNCHANGED dash

\* the drivers that sign in: the last one has no row in drivers
SignedIn == {DEMO_DRIVER_ID, "driver-x"}

\* the Settings screen saves the form, the Dashcam screen reports hazards
NextReport ==
    \/ reset
    \/ \E id \in SignedIn : setDriverId(id)
    \/ \E v \in BOOLEAN : onToggleAnonymousMode(v)
    \/ handleSave
    \/ \E k \in Calls : PutDriverSettings(k)
    \/ \E k \in Calls : handleSaveThen(k)
    \/ \E k \in Calls : handleSaveCatch(k)
    \/ /\ nrep < MaxReports
       /\ \E type \in {"pothole"} : handleReport(type)
    \/ \E k \in Calls : PostReportHazard(k)
    \/ \E k \in Calls : handleReportThen(k)
    \/ \E k \in Calls : handleReportCatch(k)

SpecReport == Init /\ [][NextReport]_vars

\* every async action of the store, overlapping as the screens let them, and
\* the sign-out; the requests for settings may fail
NextOverlap ==
    \/ reset
    \/ fetchDriverSettings(Null)
    \/ \E k \in Calls : GetDriverSettings(k)
    \/ \E k \in Calls : fetchDriverSettingsThen(k)
    \/ \E k \in Calls : fetchDriverSettingsCatch(k)
    \/ updateDriverSettings(Null, Form)
    \/ \E k \in Calls : PutDriverSettings(k)
    \/ \E k \in Calls : updateDriverSettingsThen(k)
    \/ \E k \in Calls : updateDriverSettingsCatch(k)
    \/ fetchDriverHistory(Null, 100, 0)
    \/ \E k \in Calls : GetDriverHistory(k)
    \/ \E k \in Calls : fetchDriverHistoryThen(k)
    \/ fetchNearbyHazards(Null, DefaultLatitude, DefaultLongitude, 20000)
    \/ \E k \in Calls : PostNearbyHazards(k)
    \/ \E k \in Calls : fetchNearbyHazardsThen(k)
    \/ /\ nrep < MaxReports
       /\ reportHazard(Null, DefaultLatitude, DefaultLongitude, "pothole")
    \/ \E k \in Calls : PostReportHazard(k)
    \/ \E k \in Calls : reportHazardThen(k)

SpecOverlap == Init /\ [][NextOverlap]_vars

-----------------------------------------------------------------------------
(* DashcamScreen: the camera.  A handler runs from the press to its first
   await on the state of the latest render; "toggling" and "recordAsync" are
   the handlers that are waiting. *)

\* the render after a state update: cameraRef is set while CameraView is shown
Render(d) ==
    [d EXCEPT !.cameraRef = IF d.showCamera /\ d.cameraPermission
                            THEN "CameraView" ELSE Null]

\* what handleToggleCamera does after its await of stopRecording, as it would
\* be without setIsRecording(false)
ToggleCloseResumedStillRecording ==
    /\ dash.toggling.stopping
    /\ dash' = Render([dash EXCEPT !.showCamera = FALSE, !.toggling.stopping = FALSE])
    /\ UNCHANGED <<dbvars, storevars, pager, settings>>

\* handleToggleCamera up to its first await, or to its end
handleToggleCamera ==
    /\ dash' =
          IF ~dash.showCamera
          THEN IF ~dash.cameraPermission
               THEN [dash EXCEPT !.toggling.requesting = TRUE]
               ELSE Render([dash EXCEPT !.showCamera = TRUE])
          ELSE IF dash.isRecording
               THEN [dash EXCEPT !.toggling.stopping = TRUE]
               ELSE Render([dash EXCEPT !.showCamera = FALSE])
    /\ dash' # dash
    /\ UNCHANGED <<dbvars, storevars, pager, settings>>

\* ... after requestCameraPermission
ToggleOpenResumed(granted) ==
    /\ dash.toggling.requesting
    /\ dash' =
          IF granted
          THEN Render([dash EXCEPT !.cameraPermission = TRUE, !.showCamera = TRUE,
                                   !.toggling.requesting = FALSE])
          ELSE [dash EXCEPT !.alert = "Camera Permission", !.toggling.requesting = FALSE]
    /\ UNCHANGED <<dbvars, storevars, pager, settings>>

\* ... after cameraRef.current?.stopRecording()
ToggleCloseResumed ==
    /\ dash.toggling.stopping
    /\ dash' = Render([dash EXCEPT !.isRecording = FALSE, !.showCamera = FALSE,
                                   !.toggling.stopping = FALSE])
    /\ UNCHANGED <<dbvars, storevars, pager, settings>>

\* the record button while it reads RECORD: handleStartRecording up to
\* recordAsync
handleStartRecording ==
    /\ dash.cameraRef # Null
    /\ ~dash.isRecording
    /\ dash.recordAsync < MaxRecordings
    /\ dash' = [dash EXCEPT !.isRecording = TRUE, !.recordAsync = dash.recordAsync + 1]
    /\ UNCHANGED <<dbvars, storevars, pager, settings>>

\* recordAsync resolves (stopped, or maxDuration reached) or rejects: the
\* finally of handleStartRecording
RecordAsyncSettled ==
    /\ dash.recordAsync > 0
    /\ dash' = [dash EXCEPT !.isRecording = FALSE, !.recordAsync = dash.recordAsync - 1]
    /\ UNCHANGED <<dbvars, storevars, pager, settings>>

\* the record button while it reads STOP
handleStopRecording ==
    /\ dash.cameraRef # Null
    /\ dash.isRecording
    /\ dash' = [dash EXCEPT !.isRecording = FALSE]
    /\ UNCHANGED <<dbvars, storevars, pager, settings>>

\* the camera of the Dashcam screen, and reports made beside it
NextCamera ==
    \/ handleToggleCamera
    \/ \E granted \in BOOLEAN : ToggleOpenResumed(granted)
    \/ ToggleCloseResumed
    \/ handleStartRecording
    \/ RecordAsyncSettled
    \/ handleStopRecording
    \/ /\ nrep < MaxReports
       /\ \E type \in HazardTypes : handleReport(type)
    \/ \E k \in Calls : PostReportHazard(k)
    \/ \E k \in Calls : handleReportThen(k)
    \/ \E k \in Calls : handleReportCatch(k)

SpecCamera == Init /\ [][NextCamera]_vars

-----------------------------------------------------------------------------
(* A client that reads a driver's history page by page through the API *)

PageSizes == {1, 2}

StartPaging(d, limit) ==
    /\ pager.state = "idle"
    /\ pager' = [state |-> "paging", driver |-> d, limit |-> limit, offset |-> 0,
                 got |-> <<>>, last |-> <<>>, full |-> history(d), stable |-> TRUE]
    /\ UNCHANGED <<dbvars, storevars, screens>>

\* api.getDriverHistory(driver, limit, offset) and its response, then on to
\* the next offset; it reads on for a page or two past the end
FetchPage ==
    /\ pager.state = "paging"
    /\ pager.offset <= MaxHazards + 1
    /\ LET data == HistoryResponse(getDriverHistory(pager.driver, pager.limit, pager.offset))
       IN  pager' = [pager EXCEPT !.got = pager.got \o data.hazards,
                                  !.last = data.hazards,
                                  !.offset = pager.offset + pager.limit,
                                  !.stable = pager.stable /\ history(pager.driver) = pager.full]
    /\ UNCHANGED <<dbvars, storevars, screens>>

FinishPaging ==
    /\ pager.state = "paging"
    /\ pager.offset > MaxHazards + 1
    /\ pager' = [state |-> "idle"]
    /\ UNCHANGED <<dbvars, storevars, screens>>

NextHistory ==
    \/ Tick
    \/ \E a \in NearCalls : RpcInsertHazard(1, a)
    \/ InsertHeap(1)
    \/ InsertIndexes(1)
    \/ Commit(1)
    \/ \E d \in {DEMO_DRIVER_ID, "driver-x"}, limit \in PageSizes : StartPaging(d, limit)
    \/ FetchPage
    \/ FinishPaging

SpecHistory == Init /\ [][NextHistory]_vars

-----------------------------------------------------------------------------
(* Claims about the database *)

Stored == {h \in hazards : h.id \in committed}

ResultIds == {qres.rows[i].id : i \in 1..Len(qres.rows)}

\* C1 Radius correctness: a nearby query returns a stored hazard if and only
\* if its distance from the centre is at most the radius (the radius, in
\* 1/10000 km, is a number of decimetres), and returns nothing else.
C1_RadiusCorrect ==
    qres.asked =>
        /\ \A h \in Stored :
              h.id \in ResultIds <=> ST_Distance(h.location, qres.centre) <= qres.radius
        /\ \A id \in ResultIds : \E h \in Stored : h.id = id

\* a query that kept one hazard and left out another, and one of radius 0
\* away from every hazard that returned nothing
C1_Witness ==
    /\ qres.asked
    /\ \/ /\ \E h \in Stored : h.id \in ResultIds
          /\ \E h \in Stored : h.id \notin ResultIds
          /\ qres.radius > 0
       \/ /\ qres.radius = 0
          /\ Stored # {}
          /\ qres.rows = <<>>

TrueDistance(id) ==
    LET h == CHOOSE x \in Stored : x.id = id IN ST_Distance(h.location, qres.centre)

\* C2 Ordering: in the result of a nearby query no hazard is farther from the
\* centre than the one after it.
C2_NonDecreasingDistance ==
    qres.asked =>
        \A i \in 1..(Len(qres.rows) - 1) :
            TrueDistance(qres.rows[i].id) <= TrueDistance(qres.rows[i + 1].id)

\* C3 Atomicity under concurrency: the calls that returned produced as many
\* stored hazards with as many distinct ids, and each is found by a nearby
\* query at its coordinates and in its reporter's hazards.
C3_Atomicity ==
    /\ Cardinality({a.ret.id : a \in acks}) = nret
    /\ Cardinality(Stored) = nret
    /\ \A a \in acks :
          /\ \A rows \in get_hazards_within_radius(a.args.p_latitude, a.args.p_longitude, 0) :
                \E i \in 1..Len(rows) : rows[i].id = a.ret.id
          /\ \E h \in ViaDriver(a.args.p_driver_id) : h.id = a.ret.id

\* every session has had a call return, and none is in flight
C3_Witness ==
    /\ nret = NumSessions
    /\ \A s \in Sessions : sess[s].pc = "idle"
    /\ \E a, b \in acks : a.ret.id # b.ret.id /\ a.ret.created_at = b.ret.created_at

AllDrivers == {h.driver_id : h \in hazards}

\* C4 Index consistency: in every state the hazards a reader reaches through
\* the location index, through the driver index and through the primary key
\* are the same.
C4_IndexConsistent ==
    LET byLocation == {h.id : h \in ViaLocation}
        byDriver   == UNION {{h.id : h \in ViaDriver(d)} : d \in AllDrivers}
        byId       == {id \in HazardIds : ViaId(id) # {}}
    IN  byLocation = byDriver /\ byDriver = byId

\* two inserts are between their steps, one before its index entries and one
\* before its commit
C4_Witness ==
    /\ \E s \in Sessions : sess[s].pc = "heap"
    /\ \E s \in Sessions : sess[s].pc = "indexed"

\* C5 Validation boundary: a call with a recognised type is admitted if and
\* only if its latitude is in [-90, 90] and its longitude in [-180, 180].
C5_ValidationBoundary ==
    [][\A s \in Sessions :
          (sess[s].pc = "called" /\ sess'[s].pc # "called"
              /\ sess[s].args.p_hazard_type \in HazardTypes)
          => (sess'[s].pc = "heap"
                <=> (LatitudeInRange(sess[s].args.p_latitude)
                        /\ LongitudeInRange(sess[s].args.p_longitude)))]_vars

\* the difference y - x of two degree values at most a degree apart, in 10^-9
DiffNano(x, y) == (y.i - x.i) * Nano + (y.f - x.f)

\* y is x rounded to 8 decimal places, a half away from zero
Rounded8(x, y) ==
    /\ y.f % 10 = 0
    /\ Abs(y.i - x.i) <= 1
    /\ Abs(DiffNano(x, y)) <= 5
    /\ Abs(DiffNano(x, y)) = 5 => (IF x.i >= 0 THEN DiffNano(x, y) > 0 ELSE DiffNano(x, y) < 0)

LookupEquals(ret) ==
    /\ Cardinality(ViaId(ret.id)) = 1
    /\ \A h \in ViaId(ret.id) : Returning(h) = ret

\* C9 Round trip, as claimed: the returned hazard carries exactly the call's
\* reporter, type, latitude and longitude, and a lookup of its id equals it.
C9_RoundTripExact ==
    \A a \in acks :
        /\ a.ret.driver_id = a.args.p_driver_id
        /\ a.ret.hazard_type = a.args.p_hazard_type
        /\ a.ret.latitude = a.args.p_latitude
        /\ a.ret.longitude = a.args.p_longitude
        /\ LookupEquals(a.ret)

\* C9 Round trip, amended: the returned hazard carries the call's reporter,
\* type and severity, its latitude and longitude rounded to 8 decimal places,
\* an id no other returned hazard has and the start time of its call, and a
\* lookup of its id equals it field for field.
C9_RoundTrip ==
    \A a \in acks :
        /\ a.ret.driver_id = a.args.p_driver_id
        /\ a.ret.hazard_type = a.args.p_hazard_type
        /\ a.ret.severity_level = a.args.p_severity_level
        /\ Rounded8(a.args.p_latitude, a.ret.latitude)
        /\ Rounded8(a.args.p_longitude, a.ret.longitude)
        /\ a.ret.id \in HazardIds
        /\ a.ret.created_at \in 0..now
        /\ \A b \in acks : b.ret.id = a.ret.id => b = a
        /\ LookupEquals(a.ret)

\* a call whose latitude has a ninth decimal digit has returned
C9_Witness ==
    \E a \in acks : a.args.p_latitude.f % 10 # 0 /\ a.ret.latitude # a.args.p_latitude

\* the first n elements of a sequence
Prefix(q, n) == IF n = 0 THEN <<>> ELSE SubSeq(q, 1, Min(n, Len(q)))

-----------------------------------------------------------------------------
(* Claims about the client store *)

\* the report of call k was rejected by the server or never answered
RejectedOrFailed(k) ==
    /\ calls[k].fn = "reportHazard"
    /\ \/ calls[k].stage = "sent"
       \/ calls[k].stage = "answered" /\ calls[k].status # 201

\* C6 No mutation on rejection: when a report that was rejected or failed
\* completes, the stored hazards, the history list and the count of nearby
\* hazards are what they were.
C6_NoMutationOnRejection ==
    [][\A k \in Calls :
          (calls[k].stage # "free" /\ RejectedOrFailed(k) /\ calls'[k].stage = "free")
          => /\ hazards' = hazards
             /\ driverHistory' = driverHistory
             /\ nearbyHazardsCount' = nearbyHazardsCount]_vars

StoredIds(d) == {h.id : h \in {x \in Stored : x.driver_id = d}}

\* C8 History membership and order: after a fetch of reporter X's history
\* the list shown holds only stored hazards of X, newest first, and, when the
\* page starts at 0 and is long enough, every hazard of X whose report had
\* been stored before the fetch.
C8_HistoryShown ==
    retval.fn = "fetchDriverHistory" =>
        LET X == retval.args.driverId
            n == Len(driverHistory)
        IN  /\ \A i \in 1..n : driverHistory[i].id \in StoredIds(X)
            /\ \A i \in 1..(n - 1) :
                  driverHistory[i].created_at >= driverHistory[i + 1].created_at
            /\ (retval.args.offset = 0 /\ retval.args.limit >= Cardinality(StoredIds(X)))
                  => \A a \in retval.before :
                        a.ret.driver_id = X
                            => \E i \in 1..n : driverHistory[i].id = a.ret.id

\* the reports at the centre of the query that had returned before it
ReportedAtCentre ==
    {a \in retval.before : /\ a.args.p_latitude = retval.args.latitude
                            /\ a.args.p_longitude = retval.args.longitude}

\* C10 Read-your-writes: a nearby query centred where a report whose submit
\* had returned before it was made includes that report's hazard with
\* distance 0, and the count it reports counts it.
C10_ReadYourWrites ==
    retval.fn = "fetchNearbyHazards" =>
        LET list == retval.value.hazards
        IN  /\ \A a \in ReportedAtCentre :
                  \E i \in 1..Len(list) :
                      /\ list[i].id = a.ret.id
                      /\ list[i].distance_km = 0
            /\ TotalCountOrZero(retval.value) >= Cardinality(ReportedAtCentre)

-----------------------------------------------------------------------------
(* Claims about identifiers, types, severity and confidence *)

\* C11 Identifier uniqueness: no two stored hazards share an id, and every
\* entry of driverHistory, stored or recorded by the fallback, has an id
\* different from that of every other entry.
C11_IdsUnique ==
    /\ \A g, h \in hazards : g.id = h.id => g = h
    /\ \A i, j \in 1..Len(driverHistory) :
          i # j => driverHistory[i].id # driverHistory[j].id

\* C12 Unrecognised type is a hard rejection: every stored hazard's type is
\* one of the six hazard types.
C12_TypeWhitelist == \A h \in hazards : h.hazard_type \in HazardTypes

\* C13 Severity defaulting: the hazard that reportHazard returns for valid
\* coordinates and a recognised type, no severity being sent, has severity
\* medium.
C13_SeverityMedium ==
    (/\ retval.fn = "reportHazard"
     /\ ~Falsy(retval.args.driverId)
     /\ LatitudeInRange(retval.args.latitude)
     /\ LongitudeInRange(retval.args.longitude)
     /\ retval.args.type \in HazardTypes)
    => retval.value.severity_level = "medium"

\* a call that breaks no rule but, perhaps, one on its confidence score
ValidButConfidence(a) ==
    /\ LatitudeInRange(a.p_latitude)
    /\ LongitudeInRange(a.p_longitude)
    /\ a.p_hazard_type \in HazardTypes
    /\ a.p_driver_id \in drivers

\* C14 Confidence range: every hazard has a confidence in [0, 1], and a call
\* with a confidence in [0, 1], 0 and 1 included, is accepted and its value
\* stored unchanged.
C14_ConfidenceRange ==
    [][/\ \A h \in hazards' : h.confidence_score >= 0 /\ h.confidence_score <= 10000
       /\ \A s \in Sessions :
             (/\ sess[s].pc = "called"
              /\ sess'[s].pc # "called"
              /\ ValidButConfidence(sess[s].args)
              /\ sess[s].args.p_confidence_score \in 0..10000)
             => /\ sess'[s].pc = "heap"
                /\ sess'[s].row.confidence_score = sess[s].args.p_confidence_score]_vars

-----------------------------------------------------------------------------
(* Claims about the order of ties and about reporters *)

\* C15 Tie-break: of two hazards of a nearby result at the same distance
\* from the centre, the newer comes before the older.
C15_TieBreak ==
    qres.asked =>
        \A i, j \in 1..Len(qres.rows) :
            (i < j /\ TrueDistance(qres.rows[i].id) = TrueDistance(qres.rows[j].id))
            => qres.rows[i].created_at >= qres.rows[j].created_at

\* C16 Owner-scoped writes: a hazard is created only with the driver id of
\* the session that creates it.
C16_OwnerScoped ==
    [][\A s \in Sessions :
          (sess[s].pc = "called" /\ sess'[s].pc = "heap")
          => sess'[s].row.driver_id = AuthUid(s)]_vars

\* C17 Opaque reporter: a call with coordinates in range and a recognised
\* type is admitted whatever its driver id, one with no driver record too.
C17_OpaqueReporter ==
    [][\A s \in Sessions :
          (/\ sess[s].pc = "called"
           /\ sess'[s].pc # "called"
           /\ LatitudeInRange(sess[s].args.p_latitude)
           /\ LongitudeInRange(sess[s].args.p_longitude)
           /\ sess[s].args.p_hazard_type \in HazardTypes)
          => sess'[s].pc = "heap"]_vars

-----------------------------------------------------------------------------
(* Claims about the store's lists and counts *)

\* the count a history result carries, under either of its names
HistoryCount(data) ==
    IF "total_count" \in DOMAIN data THEN data.total_count
    ELSE IF "total_hazards" \in DOMAIN data THEN data.total_hazards
    ELSE 0

\* C18 Unknown reporter yields an empty result: a history lookup for a
\* reporter with no stored hazards returns an empty list with count 0 and
\* leaves driverHistory empty, never hazards of someone else.
C18_UnknownReporterEmpty ==
    (/\ retval.fn = "fetchDriverHistory"
     /\ StoredIds(retval.args.driverId) = {})
        => /\ Len(retval.value.hazards) = 0
           /\ HistoryCount(retval.value) = 0
           /\ Len(driverHistory) = 0

\* C19 Count matches list: in every reachable state of the store
\* nearbyHazardsCount is the number of hazards held in nearbyHazards.
C19_CountMatchesList == nearbyHazardsCount = Len(nearbyHazards)

\* C20 Every valid centre is queryable: a fetchNearbyHazards that returns,
\* for a driver id that is set and a latitude and longitude in range, has sent
\* the nearby query and stores the hazards of its result in nearbyHazards.
C20_ValidCentreQueried ==
    [][(/\ retval'.fn = "fetchNearbyHazards"
        /\ ~Falsy(retval'.args.driverId)
        /\ LatitudeInRange(retval'.args.latitude)
        /\ LongitudeInRange(retval'.args.longitude))
          => \E k \in Calls :
                /\ InFlightCall(k, "fetchNearbyHazards")
                /\ calls'[k].stage = "free"
                /\ nearbyHazards' = HazardsOrEmpty(retval'.value)]_vars

-----------------------------------------------------------------------------
(* Claims about the reported distance and about the screens *)

\* C28 Reported distance within radius, as claimed: every row of a nearby query has
\* distance_meters at most the radius in metres (the radius, in 1/10000 km,
\* is a number of decimetres; distance_meters is a number of whole metres).
C28_DistanceWithinRadiusExact ==
    qres.asked =>
        \A i \in 1..Len(qres.rows) : qres.rows[i].distance_meters * 10 <= qres.radius

\* C28 as amended: every row of a nearby query has distance_meters at most
\* half a metre above the radius in metres, distance_meters being the distance
\* rounded to the nearest whole metre.
C28_DistanceWithinRadius ==
    qres.asked =>
        \A i \in 1..Len(qres.rows) :
            qres.rows[i].distance_meters * 10 <= qres.radius + 5

\* a query whose radius is a fraction of a metre returned a hazard whose
\* distance was rounded up past the radius
C28_Witness ==
    /\ qres.asked
    /\ \E i \in 1..Len(qres.rows) :
          /\ qres.rows[i].distance_meters * 10 > qres.radius
          /\ TrueDistance(qres.rows[i].id) <= qres.radius

\* C25 Periodic refresh: while the Dashcam screen is mounted and holds a
\* position, every tick of the poll timer starts a fetchNearbyHazards call
\* with the position the screen holds at that moment.
C25_PeriodicRefresh ==
    [][(/\ dash.pollRef = "ticking"
        /\ dash.mounted
        /\ ~IsNullObject(dash.location)
        /\ dash'.polls = dash.polls + 1)
          => \E k \in Calls :
                /\ calls[k].stage = "free"
                /\ calls'[k].stage = "sent"
                /\ calls'[k].fn = "fetchNearbyHazards"
                /\ calls'[k].args.latitude = dash.location.latitude
                /\ calls'[k].args.longitude = dash.location.longitude]_vars

\* C26 Clean unmount: once the Dashcam screen has unmounted and
\* startLocationTracking has run to its end, no position watch and no poll
\* timer that the screen created is active.
C26_CleanUnmount ==
    (~dash.mounted /\ dash.tracking = "done")
        => /\ dash.locationSub # "watching"
           /\ dash.pollRef # "ticking"

\* the driver's saved settings have Anonymous Mode on
AnonymousOn ==
    /\ ~IsNullObject(driverSettings)
    /\ "anonymous_mode" \in DOMAIN driverSettings
    /\ driverSettings.anonymous_mode

\* C21 Anonymous mode: while the driver's Anonymous Mode setting is on, a
\* report that the app submits carries no driver id in its request, and the
\* record that is added to driverHistory carries none.
C21_AnonymousMode ==
    [][AnonymousOn =>
          /\ \A k \in Calls :
                (/\ calls[k].stage = "free"
                 /\ calls'[k].stage = "sent"
                 /\ calls'[k].fn = "reportHazard")
                    => Falsy(calls'[k].request.body.driver_id)
          /\ Len(driverHistory') = Len(driverHistory) + 1
                => Falsy(driverHistory'[1].driver_id)]_vars

\* a call of handleReport is over in this step
ReportOver ==
    \/ dash.reporting /\ ~dash'.reporting
    \/ Falsy(driverId) /\ nrep' = nrep + 1

\* C27 Report failure is surfaced: a report that ends without the backend
\* having stored it (no driver id, request failed, request rejected) shows the
\* alert 'Failed to report hazard.' and no 'HAZARD REPORTED' flash; a report
\* the backend stored shows the flash and no alert.
C27_FailureSurfaced ==
    [][ReportOver =>
          IF ~Falsy(retval'.args.driverId) /\ retval'.value.id \in committed'
          THEN /\ dash'.flashes = dash.flashes + 1
               /\ dash'.alert = dash.alert
          ELSE /\ dash'.alert = "Failed to report hazard."
               /\ dash'.flashes = dash.flashes]_vars

\* C22 Sign-out is final: once reset() has cleared the driver id, and no
\* action having been started since, driverSettings is null, driverHistory and
\* nearbyHazards are empty and nearbyHazardsCount is 0, whatever calls were in
\* flight at the reset.
C22_SignOutFinal ==
    Falsy(driverId) =>
        /\ driverSettings = NullObject
        /\ driverHistory = <<>>
        /\ nearbyHazards = <<>>
        /\ nearbyHazardsCount = 0

LoadingActions == {"fetchDriverSettings", "updateDriverSettings", "fetchDriverHistory"}

\* C24 Loading flag: loading is true exactly when a fetchDriverSettings,
\* updateDriverSettings or fetchDriverHistory call is in flight.
C24_LoadingFlag ==
    loading <=> \E k \in Calls : \E fn \in LoadingActions : InFlightCall(k, fn)

\* C23 Latest fetch wins: once every call has finished, driverHistory is the
\* response of the latest fetch with the later reports prepended, so it lists
\* every hazard that the driver reported, whether a fetch returned it or its
\* report prepended it: no older response has replaced a newer one and none
\* has dropped a prepended report.
C23_LatestFetchWins ==
    (\A k \in Calls : calls[k].stage = "free")
        => \A a \in acks :
              \E i \in 1..Len(driverHistory) : driverHistory[i].id = a.ret.id

\* C29 Recording implies camera: in every reachable state of the Dashcam
\* screen isRecording is true only if showCamera is true.
C29_RecordingImpliesCamera == dash.isRecording => dash.showCamera

\* the camera was closed while a recording was under way: its recordAsync
\* has not settled yet
C29_Witness ==
    /\ ~dash.showCamera
    /\ dash.recordAsync > 0
    /\ ~dash.isRecording

====
